---------------------------- MODULE Spec2Model ----------------------------
(***************************************************************************)
(* Model of node-clingo, tools/node-clingo/src: the result cache           *)
(* (SolveResultCache), the program store (ProgramStore), the host          *)
(* functions of binding.cc and the solver (ClingoSolver).                  *)
(*                                                                         *)
(* SpecCache explores the cache alone (addResult / result / the clock),    *)
(* SpecStore the program store alone (addProgram / removeProgramByKey /    *)
(* removeAllPrograms / prepareQuery and the Query objects callers keep),   *)
(* SpecBinding the host functions over g_programs and g_results            *)
(* (setProgram / removeProgram / removeProgramsByCategory /                *)
(* removeAllPrograms / solve), and SpecSolver ClingoSolver::solve with     *)
(* the clock.                                                              *)
(***************************************************************************)
EXTENDS Integers, Sequences, FiniteSets, TLC

VARIABLES
    entries,        \* SolveResultCache::entries   : Hash -> Entry (partial map)
    lru,            \* SolveResultCache::lru       : front (index 1) = most recent
    currentBytes,   \* SolveResultCache::currentBytes
    now,            \* value current_epoch_ms() returns
    cacheLast       \* the last cache call: its arguments (hash, arg), the clock (at)
                    \* and the cache (pre) it ran on, and what it returned (ret, out);
                    \* and in accessOrder the fingerprints by latest access

cacheVars == <<entries, lru, currentBytes, now, cacheLast>>

VARIABLES
    programs,               \* ProgramStore::programs : KeyHash -> Program object
    programs_by_category,   \* ProgramStore::programs_by_category : KeyHash -> objects
    key_to_hash,            \* ProgramStore::key_to_hash : string -> KeyHash
    next_key,               \* ProgramStore::next_key
    allocated,              \* how many Program objects addProgram has created
    held                    \* the prepareQuery call whose Query a caller still
                            \* keeps: [query, refs, out], or NoQuery

storeVars == <<programs, programs_by_category, key_to_hash, next_key, allocated, held>>

VARIABLES
    g_programs,       \* binding.cc g_programs : key -> Program (partial map)
    g_results,        \* binding.cc g_results  : fingerprint -> CacheEntry
    g_errorMessages,  \* binding.cc g_errorMessages
    bindLast          \* the last host call: what it was given, the maps it ran
                      \* on, and what it returned or threw

bindVars == <<g_programs, g_results, g_errorMessages, bindLast>>

VARIABLES
    todayCalled,     \* ClingoSolver::todayCalled
    errorMessages,   \* ClingoSolver::errorMessages
    answers,         \* ClingoSolver::answers
    solverLast       \* the last ClingoSolver::solve: its query, how the engine
                     \* ran, the clock (at), todayCalled when it was called
                     \* (flagBefore), the SolveResult returned and the calls
                     \* made to the engine, in order (engine)

solverVars == <<todayCalled, errorMessages, answers, solverLast>>

vars == <<cacheVars, storeVars, bindVars, solverVars>>

-----------------------------------------------------------------------------
(* Generic helpers on sequences and partial maps.                          *)

Range(s) == {s[i] : i \in DOMAIN s}

\* s without its first occurrence of x (std::list::erase of the node whose
\* iterator the entry of x holds; every hash has at most one node).
RemoveFirst(s, x) ==
    IF \E i \in DOMAIN s : s[i] = x
    THEN LET i == CHOOSE j \in DOMAIN s : s[j] = x /\ \A k \in 1..(j - 1) : s[k] # x
         IN  SubSeq(s, 1, i - 1) \o SubSeq(s, i + 1, Len(s))
    ELSE s

\* std::list::pop_back
PopBack(s) == SubSeq(s, 1, Len(s) - 1)

\* unordered_map::erase(key)
MapErase(m, k) == [x \in DOMAIN m \ {k} |-> m[x]]

\* unordered_map::operator[](key) = v
MapPut(m, k, v) == [x \in DOMAIN m \cup {k} |-> IF x = k THEN v ELSE m[x]]

\* unordered_map::emplace(key, v): no effect when the key is present
MapEmplace(m, k, v) ==
    IF k \in DOMAIN m THEN m ELSE [x \in DOMAIN m \cup {k} |-> IF x = k THEN v ELSE m[x]]

IsPrefix(s, t) == Len(s) <= Len(t) /\ SubSeq(t, 1, Len(s)) = s

-----------------------------------------------------------------------------
(* Sizes.  The sizeof values are those of an LP64 libstdc++ build.         *)

CACHE_CAPACITY_MB == 16
CACHE_CAPACITY_BYTES == CACHE_CAPACITY_MB * 1024 * 1024
SIZEOF_VECTOR == 24
VECTOR_OVERHEAD_BYTES == SIZEOF_VECTOR
SIZEOF_STRING == 32
SIZEOF_LOG_MESSAGE == 40
SIZEOF_SOLVE_RESULT == 128

\* Bounds of the exploration.
MaxClock == 3

\* A std::string is its text and its capacity(); a SolveResult also records
\* the capacity() of its two vectors.
Str(text, cap) == [text |-> text, cap |-> cap]

MkResult(text, cap, vu) ==
    [ isError     |-> FALSE,
      answers     |-> <<Str(text, cap)>>,
      answersCap  |-> 1,
      logs        |-> <<>>,
      logsCap     |-> 0,
      key         |-> Str("", 15),
      valid_until |-> vu ]

\* The valid_until of the results that expire.
ExpiryAt == 2

\* The results the cache is fed with: two that fit twice but not three
\* times, one that fits next to no other large one, one larger than the
\* whole cache, and a small one; with and without an expiry.
ResX == MkResult("x", 7000000, 0)
ResY == MkResult("y", 7000000, ExpiryAt)
ResW == MkResult("w", 10000000, 0)
ResHuge == MkResult("h", 17000000, 0)
ResS == MkResult("s", 15, ExpiryAt)
Results == {ResX, ResY, ResW, ResHuge, ResS}

NoResult == [none |-> TRUE]

\* The fingerprints used as cache keys.
CacheKeys == {<<1>>, <<2>>, <<3>>}

RECURSIVE SumCaps(_)
SumCaps(strs) == IF strs = <<>> THEN 0 ELSE Head(strs).cap + SumCaps(Tail(strs))

estimateSizeBytes(r) ==
    SIZEOF_SOLVE_RESULT
    + r.key.cap
    + SIZEOF_STRING * r.answersCap
    + SumCaps(r.answers)
    + SIZEOF_LOG_MESSAGE * r.logsCap
    + SumCaps(r.logs)
    + VECTOR_OVERHEAD_BYTES * 2

-----------------------------------------------------------------------------
(* SolveResultCache.  A cache value is [entries, lru, currentBytes].       *)

Cache == [entries |-> entries, lru |-> lru, currentBytes |-> currentBytes]

\* addResult, first block: "If exists, remove first".
EraseExistingNever(C, hash) == C
EraseExistingKeepBytes(C, hash) ==
    IF hash \in DOMAIN C.entries
    THEN [ entries      |-> MapErase(C.entries, hash),
           lru          |-> RemoveFirst(C.lru, hash),
           currentBytes |-> C.currentBytes ]
    ELSE C
EraseExisting(C, hash) ==
    IF hash \in DOMAIN C.entries
    THEN [ entries      |-> MapErase(C.entries, hash),
           lru          |-> RemoveFirst(C.lru, hash),
           currentBytes |-> C.currentBytes - C.entries[hash].sizeBytes ]
    ELSE C

\* addResult: the size test that drops a result.
TooLargeNever(bytes) == FALSE
TooLarge(bytes) == bytes > CACHE_CAPACITY_BYTES

\* addResult: which list node the eviction loop takes.
EvictFromFront(l) == [hash |-> l[1], rest |-> Tail(l)]
EvictPick(l) == [hash |-> l[Len(l)], rest |-> PopBack(l)]

\* addResult: the guard of the eviction loop.
NeedsSpaceNever(C, bytes) == FALSE
NeedsSpaceWhileAny(C, bytes) == C.lru # <<>>
NeedsSpace(C, bytes) ==
    C.currentBytes + bytes > CACHE_CAPACITY_BYTES /\ C.lru # <<>>

\* addResult: "make space for the new result".
RECURSIVE MakeSpace(_, _)
MakeSpace(C, bytes) ==
    IF NeedsSpace(C, bytes)
    THEN LET p == EvictPick(C.lru)
             found == p.hash \in DOMAIN C.entries
         IN  MakeSpace(
               [ entries      |-> IF found THEN MapErase(C.entries, p.hash) ELSE C.entries,
                 lru          |-> p.rest,
                 currentBytes |-> IF found
                                  THEN C.currentBytes - C.entries[p.hash].sizeBytes
                                  ELSE C.currentBytes ],
               bytes)
    ELSE C

\* addResult: "add the new result".
PushEntryBack(C, hash, r, bytes) ==
    [ entries      |-> MapEmplace(C.entries, hash, [result |-> r, sizeBytes |-> bytes]),
      lru          |-> C.lru \o <<hash>>,
      currentBytes |-> C.currentBytes + bytes ]
PushEntry(C, hash, r, bytes) ==
    [ entries      |-> MapEmplace(C.entries, hash, [result |-> r, sizeBytes |-> bytes]),
      lru          |-> <<hash>> \o C.lru,
      currentBytes |-> C.currentBytes + bytes ]

addResultOp(C, hash, r) ==
    LET C1 == EraseExisting(C, hash)
        bytes == estimateSizeBytes(r)
    IN  IF TooLarge(bytes) THEN C1
        ELSE PushEntry(MakeSpace(C1, bytes), hash, r, bytes)

\* result(): the expiry test.
IsStaleNever(r, t) == FALSE
IsStaleUnguarded(r, t) == t > r.valid_until
IsStaleAtOrAfter(r, t) == r.valid_until > 0 /\ t >= r.valid_until
IsStale(r, t) == r.valid_until > 0 /\ t > r.valid_until

\* result(): "promote to most-recently-used".
PromoteNever(l, hash) == l
PromoteToBack(l, hash) == RemoveFirst(l, hash) \o <<hash>>
Promote(l, hash) == <<hash>> \o RemoveFirst(l, hash)

\* result(): [cache, ret, out]; out is the SolveResult copied to the caller.
resultOp(C, hash, t) ==
    IF hash \in DOMAIN C.entries
    THEN IF IsStale(C.entries[hash].result, t)
         THEN [ cache |-> [ entries      |-> MapErase(C.entries, hash),
                            lru          |-> RemoveFirst(C.lru, hash),
                            currentBytes |-> C.currentBytes - C.entries[hash].sizeBytes ],
                ret |-> FALSE, out |-> NoResult ]
         ELSE [ cache |-> [ entries      |-> C.entries,
                            lru          |-> Promote(C.lru, hash),
                            currentBytes |-> C.currentBytes ],
                ret |-> TRUE, out |-> C.entries[hash].result ]
    ELSE [cache |-> C, ret |-> FALSE, out |-> NoResult]

\* The fingerprints in the order of their latest insert or lookup hit, the
\* latest first, after one more access of hash.
Accessed(order, hash) == <<hash>> \o SelectSeq(order, LAMBDA k : k # hash)

SetCache(C) ==
    /\ entries' = C.entries
    /\ lru' = C.lru
    /\ currentBytes' = C.currentBytes

addResult(hash, r) ==
    /\ SetCache(addResultOp(Cache, hash, r))
    /\ cacheLast' = [op |-> "addResult", hash |-> hash, arg |-> r, at |-> now,
                     pre |-> Cache, ret |-> FALSE, out |-> NoResult,
                     accessOrder |-> Accessed(cacheLast.accessOrder, hash)]
    /\ UNCHANGED <<now, storeVars, bindVars, solverVars>>

result(hash) ==
    LET R == resultOp(Cache, hash, now)
    IN  /\ SetCache(R.cache)
        /\ cacheLast' = [op |-> "result", hash |-> hash, arg |-> NoResult, at |-> now,
                         pre |-> Cache, ret |-> R.ret, out |-> R.out,
                         accessOrder |-> IF R.ret
                                         THEN Accessed(cacheLast.accessOrder, hash)
                                         ELSE cacheLast.accessOrder]
        /\ UNCHANGED <<now, storeVars, bindVars, solverVars>>

\* The wall clock advances between calls.
Tick ==
    /\ now < MaxClock
    /\ now' = now + 1
    /\ UNCHANGED <<entries, lru, currentBytes, cacheLast, storeVars, bindVars, solverVars>>

CacheInit ==
    /\ entries = <<>>
    /\ lru = <<>>
    /\ currentBytes = 0
    /\ now = 1
    /\ cacheLast = [op |-> "none", hash |-> <<>>, arg |-> NoResult, at |-> 1,
                    pre |-> [entries |-> <<>>, lru |-> <<>>, currentBytes |-> 0],
                    ret |-> FALSE, out |-> NoResult, accessOrder |-> <<>>]

CacheNext ==
    \/ \E hash \in CacheKeys, r \in Results : addResult(hash, r)
    \/ \E hash \in CacheKeys : result(hash)
    \/ Tick

-----------------------------------------------------------------------------
(* ProgramStore.  A store value is [programs, programs_by_category,        *)
(* key_to_hash, next_key].  A Program object is a record; its id stands    *)
(* for the address make_shared gave it (two objects with equal fields are  *)
(* still two objects), and tags is the category list passed to addProgram. *)
(* Program::categories is not a field of the record: addProgram fills it   *)
(* with std::transform writing through begin() of a vector that was only   *)
(* reserve()d (undefined behaviour), so that the Program gets an empty     *)
(* vector (the size never changed) or, if the build lets the writes count  *)
(* as elements, the KeyHashes of tags.  Categories gives the vector for    *)
(* either outcome where the code reads it.                                 *)

\* Bounds of the exploration.
MaxObjs == 2

\* The strings used as keys, category tags and references.
Strings == {"a", "b", "c"}

\* The addProgram calls made: (key, content, categories).
Fragment(key, content, categories) ==
    [key |-> key, content |-> content, categories |-> categories]
Fragments ==
    { Fragment("a", "p", <<"c">>), Fragment("a", "q", <<>>),
      Fragment("b", "q", <<"c">>), Fragment("b", "p", <<>>),
      Fragment("b", "z", <<>>) }

\* The reference lists prepareQuery is called with.
RefLists == {<<"a", "c">>, <<"a", "b">>, <<"b", "a">>}

\* Query texts, as bytes: "q".
QueryTexts == {<<113>>}

\* XXH3_64bits(content), on the contents used; z stands for the content
\* whose hash is 0 (XXH3_64bits maps the strings of eight bytes one-to-one
\* onto the 64-bit values).
XXH3_64bits(content) ==
    CASE content = "p" -> 1
      [] content = "q" -> 2
      [] content = "z" -> 0

\* The bytes XXH3_64bits_update(state, &program->hash, 8) reads.
HASH_BYTES == 8
RECURSIVE LittleEndian(_, _)
LittleEndian(h, n) ==
    IF n = 0 THEN <<>> ELSE <<h % 256>> \o LittleEndian(h \div 256, n - 1)

\* XXH3_64bits_digest of a streamed input, taken as collision-free: the
\* digest stands for the byte stream it was computed from.
XXH3_64bits_digest(stream) == stream

Store == [ programs             |-> programs,
           programs_by_category |-> programs_by_category,
           key_to_hash          |-> key_to_hash,
           next_key             |-> next_key ]

EmptyStore == [ programs |-> <<>>, programs_by_category |-> <<>>,
                key_to_hash |-> <<>>, next_key |-> 0 ]

\* getOrCreateHash: [store, hash]
getOrCreateHash(S, key) ==
    IF key \in DOMAIN S.key_to_hash
    THEN [store |-> S, hash |-> S.key_to_hash[key]]
    ELSE [ store |-> [S EXCEPT !.key_to_hash = MapPut(@, key, S.next_key),
                               !.next_key = @ + 1],
           hash  |-> S.next_key ]

\* getOrCreateHash on each string of a list in turn: [store, hashes]
RECURSIVE InternAll(_, _)
InternAll(S, strs) ==
    IF strs = <<>> THEN [store |-> S, hashes |-> <<>>]
    ELSE LET g == getOrCreateHash(S, Head(strs))
             rest == InternAll(g.store, Tail(strs))
         IN  [store |-> rest.store, hashes |-> <<g.hash>> \o rest.hashes]

\* addProgram, "Update category mapping": push_back on each category's vector.
RECURSIVE PushCategories(_, _, _)
PushCategories(S, categories, obj) ==
    IF categories = <<>> THEN S
    ELSE LET g == getOrCreateHash(S, Head(categories))
             vec == IF g.hash \in DOMAIN g.store.programs_by_category
                    THEN g.store.programs_by_category[g.hash] ELSE <<>>
         IN  PushCategories(
               [g.store EXCEPT !.programs_by_category = MapPut(@, g.hash, Append(vec, obj))],
               Tail(categories), obj)

\* addProgram: what happens to the fragment registered before under the key.
DetachOld(S, hash) ==
    [S EXCEPT !.programs = MapErase(@, hash)]

addProgramOp(S, key, content, categories, id) ==
    LET content_hash == XXH3_64bits(content)
        g == getOrCreateHash(S, key)
        S1 == DetachOld(g.store, g.hash)
        t == InternAll(S1, categories)
        obj == [ id      |-> id,
                 key     |-> key,
                 content |-> content,
                 hash    |-> content_hash,
                 tags    |-> categories ]
        S2 == [t.store EXCEPT !.programs = MapPut(@, g.hash, obj),
                              !.key_to_hash = MapPut(@, key, g.hash)]
    IN  PushCategories(S2, categories, obj)

\* removeProgramByKey: key_to_hash[key], which value-initialises a missing key.
LookupKey(S, key) ==
    IF key \in DOMAIN S.key_to_hash
    THEN [store |-> S, hash |-> S.key_to_hash[key]]
    ELSE [store |-> [S EXCEPT !.key_to_hash = MapPut(@, key, 0)], hash |-> 0]

\* removeProgramByKey, "Remove from category mapping": the loop copies each
\* category's vector (auto program_vector = programs_by_category[category])
\* and erases the program from the copy; the store keeps its vector, and
\* operator[] creates the vector when the category has none.
RECURSIVE RemoveFromCategoryCopies(_, _, _)
RemoveFromCategoryCopies(S, categories, obj) ==
    IF categories = <<>> THEN S
    ELSE LET c == Head(categories)
             S1 == IF c \in DOMAIN S.programs_by_category THEN S
                   ELSE [S EXCEPT !.programs_by_category = MapPut(@, c, <<>>)]
             program_vector == SelectSeq(S1.programs_by_category[c],
                                         LAMBDA w : w.id # obj.id)
         IN  RemoveFromCategoryCopies(S1, Tail(categories), obj)

\* Program::categories of obj: empty, or (asEl) the KeyHashes of its tags.
Categories(S, obj, asEl) ==
    IF asEl THEN [i \in DOMAIN obj.tags |-> S.key_to_hash[obj.tags[i]]] ELSE <<>>

\* removeProgramByKey: [store, ret]
removeProgramByKeyOp(S, key, asEl) ==
    LET k == LookupKey(S, key)
    IN  IF k.hash \in DOMAIN k.store.programs
        THEN LET obj == k.store.programs[k.hash]
                 S1 == RemoveFromCategoryCopies(k.store, Categories(k.store, obj, asEl), obj)
             IN  [store |-> [S1 EXCEPT !.programs = MapErase(@, k.hash)], ret |-> TRUE]
        ELSE [store |-> k.store, ret |-> FALSE]

removeAllProgramsOp(S) ==
    [S EXCEPT !.programs = <<>>, !.programs_by_category = <<>>]

NoQuery == [none |-> TRUE]

\* The objects some shared_ptr still owns: those in the programs map and
\* those in the Query a caller keeps (H).  programByReferences takes the
\* elements of a category vector as weak_ptrs (it calls lock() on them, and
\* removeProgramByKey compares them as weak_ptrs), and lock() succeeds on
\* the owned objects only.  (program_store.h declares the vectors with
\* shared_ptr elements, with which lock() does not compile; with owning
\* elements every object of a vector would stay resolvable.)
Owned(S, H) ==
    Range(S.programs) \cup (IF H = NoQuery THEN {} ELSE Range(H.out.programs))

\* programByReferences: push_back unless the object was pushed already (seen).
PushAlways(found, obj) == Append(found, obj)
PushUnseen(found, obj) ==
    IF obj \in Range(found) THEN found ELSE Append(found, obj)

\* programByReferences, "category match": the objects of the category's
\* vector that lock(), in the vector's order.
RECURSIVE PushLocked(_, _, _, _)
PushLocked(found, vec, S, H) ==
    IF vec = <<>> THEN found
    ELSE PushLocked(IF Head(vec) \in Owned(S, H) THEN PushUnseen(found, Head(vec))
                    ELSE found,
                    Tail(vec), S, H)

\* programByReferences, the loop over the references: [store, found];
\* found is the vector named result in the code.
RECURSIVE ResolveLoop(_, _, _, _)
ResolveLoop(S, references, found, H) ==
    IF references = <<>> THEN [store |-> S, found |-> found]
    ELSE LET g == getOrCreateHash(S, Head(references))
             T == g.store
             pushed ==
                 IF g.hash \in DOMAIN T.programs
                 THEN PushUnseen(found, T.programs[g.hash])
                 ELSE IF g.hash \in DOMAIN T.programs_by_category
                      THEN PushLocked(found, T.programs_by_category[g.hash], T, H)
                      ELSE found
         IN  ResolveLoop(T, Tail(references), pushed, H)

\* programByReferences, "sort by program hash": the orders std::sort may
\* leave the vector in, every arrangement of it with non-decreasing hash
\* (the order of equal hashes is unspecified).
RemoveAt(s, i) == SubSeq(s, 1, i - 1) \o SubSeq(s, i + 1, Len(s))
Unsorted(found) == {found}
RECURSIVE SortedByHash(_)
SortedByHash(found) ==
    IF found = <<>> THEN {<<>>}
    ELSE LET least == {i \in DOMAIN found :
                         \A j \in DOMAIN found : found[i].hash <= found[j].hash}
         IN  UNION { {<<found[i]>> \o rest : rest \in SortedByHash(RemoveAt(found, i))} :
                     i \in least }

\* programByReferences: [store, results]; results are the vectors it may return.
programByReferences(S, references, H) ==
    LET r == ResolveLoop(S, references, <<>>, H)
    IN  [store |-> r.store, results |-> SortedByHash(r.found)]

\* prepareQuery: the Program made for the query text.
MainProgram(query) ==
    [id |-> 0, key |-> "__program__", content |-> query, hash |-> 0, tags |-> <<>>]

\* prepareQuery: whether a program's hash is streamed into the digest.
Hashed(program) == program.hash # 0

\* prepareQuery: the bytes streamed into the hash state.
RECURSIVE HashStream(_)
HashStream(progs) ==
    IF progs = <<>> THEN <<>>
    ELSE (IF Hashed(Head(progs)) THEN LittleEndian(Head(progs).hash, HASH_BYTES) ELSE <<>>)
         \o HashStream(Tail(progs))

\* prepareQuery, given the vector programByReferences returned.
MakeQueryMainFirst(query, resolved) ==
    LET progs == <<MainProgram(query)>> \o resolved
    IN  [ programs |-> progs,
          hash     |-> XXH3_64bits_digest(query \o HashStream(progs)) ]
MakeQuery(query, resolved) ==
    LET progs == Append(resolved, MainProgram(query))
    IN  [ programs |-> progs,
          hash     |-> XXH3_64bits_digest(query \o HashStream(progs)) ]

\* prepareQuery: [store, queries]; queries are the Query values it may return.
prepareQueryOp(S, query, references, H) ==
    LET r == programByReferences(S, references, H)
    IN  [store |-> r.store, queries |-> {MakeQuery(query, v) : v \in r.results}]

\* The Query a caller keeps, once the store has gone to state S: a Query owns
\* its programs through shared_ptr<const Program>, so the store letting go
\* of a Program (erase, clear, replacing the map's pointer) leaves the
\* Query's vector, its Programs and its hash as they were.
QueryDropsUnregistered(H, S) ==
    IF H = NoQuery THEN H
    ELSE [H EXCEPT !.out.programs =
                     SelectSeq(@, LAMBDA o : o.id = 0 \/ o \in Range(S.programs))]
QueryAfter(H, S) == H

SetStore(S) ==
    /\ programs' = S.programs
    /\ programs_by_category' = S.programs_by_category
    /\ key_to_hash' = S.key_to_hash
    /\ next_key' = S.next_key

addProgram(key, content, categories) ==
    /\ allocated < MaxObjs
    /\ SetStore(addProgramOp(Store, key, content, categories, allocated + 1))
    /\ allocated' = allocated + 1
    /\ held' = QueryAfter(held, addProgramOp(Store, key, content, categories, allocated + 1))
    /\ UNCHANGED <<cacheVars, bindVars, solverVars>>

removeProgramByKey(key, asEl) ==
    /\ SetStore(removeProgramByKeyOp(Store, key, asEl).store)
    /\ held' = QueryAfter(held, removeProgramByKeyOp(Store, key, asEl).store)
    /\ UNCHANGED <<allocated, cacheVars, bindVars, solverVars>>

removeAllPrograms ==
    /\ SetStore(removeAllProgramsOp(Store))
    /\ held' = QueryAfter(held, removeAllProgramsOp(Store))
    /\ UNCHANGED <<allocated, cacheVars, bindVars, solverVars>>

\* prepareQuery; the caller keeps the Query (keep) or lets go of it at once.
prepareQuery(query, references, keep) ==
    LET r == prepareQueryOp(Store, query, references, held)
    IN  /\ \E q \in r.queries :
              held' = IF keep THEN [query |-> query, refs |-> references, out |-> q]
                      ELSE held
        /\ SetStore(r.store)
        /\ UNCHANGED <<allocated, cacheVars, bindVars, solverVars>>

\* The caller is done with the Query it kept: its shared_ptrs are released.
ReleaseQuery ==
    /\ held # NoQuery
    /\ held' = NoQuery
    /\ UNCHANGED <<programs, programs_by_category, key_to_hash, next_key, allocated,
                   cacheVars, bindVars, solverVars>>

StoreInit ==
    /\ programs = <<>>
    /\ programs_by_category = <<>>
    /\ key_to_hash = <<>>
    /\ next_key = 0
    /\ allocated = 0
    /\ held = NoQuery

StoreNext ==
    \/ \E f \in Fragments : addProgram(f.key, f.content, f.categories)
    \/ \E key \in Strings, asEl \in BOOLEAN : removeProgramByKey(key, asEl)
    \/ removeAllPrograms
    \/ \E query \in QueryTexts, references \in RefLists, keep \in BOOLEAN :
          prepareQuery(query, references, keep)
    \/ ReleaseQuery

-----------------------------------------------------------------------------
(* binding.cc: the host functions setProgram, removeProgram,               *)
(* removeProgramsByCategory, removeAllPrograms and solve, over the maps    *)
(* g_programs and g_results.                                               *)

MaxCached == 1

\* A value the host passes (Napi::Value): its type, its string value when it
\* is a string, its elements when it is an array.
JsString(s) == [type |-> "string", str |-> s, arr |-> <<>>]
JsNumber == [type |-> "number", str |-> "", arr |-> <<>>]
JsItem(x) == [type |-> x.type, str |-> x.str]
JsArray(xs) == [type |-> "array", str |-> "", arr |-> [i \in DOMAIN xs |-> JsItem(xs[i])]]
IsString(x) == x.type = "string"
IsArray(x) == x.type = "array"

\* The texts solve is called with, and their bytes (Utf8Value): "q", and "q"
\* followed by the eight bytes 01 00 00 00 00 00 00 00.
QueryQ == "q"
QueryQ1 == "q\\1\\0\\0\\0\\0\\0\\0\\0"
Utf8Value(text) ==
    IF text = QueryQ THEN <<113>>
    ELSE IF text = QueryQ1 THEN <<113, 1, 0, 0, 0, 0, 0, 0, 0>>
    ELSE <<>>

\* The order of std::set<std::string> and std::map<std::string, ...>.
StringOrder == <<"", "__program__", "a", "b", "c">>
Rank(str) == CHOOSE i \in DOMAIN StringOrder : StringOrder[i] = str
RECURSIVE InOrder(_)
InOrder(strs) ==
    IF strs = {} THEN <<>>
    ELSE LET first == CHOOSE x \in strs : \A y \in strs : Rank(x) <= Rank(y)
         IN  <<first>> \o InOrder(strs \ {first})

Binding == [ g_programs      |-> g_programs,
             g_results       |-> g_results,
             g_errorMessages |-> g_errorMessages ]

\* What a host call does: the maps after it, what it returned (ret), the
\* exception it threw (threw, "" for none), and for solve the fingerprint,
\* whether the cache answered (hit), whether a clingo control was created
\* (ran) and the selected programs.
Outcome(B, threw, ret) ==
    [ after |-> B, threw |-> threw, ret |-> ret, hash |-> <<>>, hit |-> FALSE,
      ran |-> FALSE, selected |-> <<>> ]
\* What a host function returns: undefined, a boolean, a number, the object
\* made of a SolveResult, or a string (text: the strings written to it).
NoAnswers == [text |-> "", parts |-> <<>>]
NoSolveResult == [answers |-> NoAnswers, logs |-> <<>>]
NoValue ==
    [kind |-> "undefined", bool |-> FALSE, count |-> 0, result |-> NoSolveResult, text |-> <<>>]
ReturnBoolean(b) == [NoValue EXCEPT !.kind = "boolean", !.bool = b]
ReturnNumber(n) == [NoValue EXCEPT !.kind = "number", !.count = n]
ReturnResult(r) == [NoValue EXCEPT !.kind = "object", !.result = r]
ReturnString(t) == [NoValue EXCEPT !.kind = "string", !.text = t]

\* SetProgram: the categories argument, its string elements.
CategoriesArg(info) ==
    IF Len(info) >= 3 /\ IsArray(info[3])
    THEN LET strs == SelectSeq(info[3].arr, IsString)
         IN  [i \in DOMAIN strs |-> strs[i].str]
    ELSE <<>>

SetProgramOp(B, info) ==
    IF Len(info) < 2 \/ ~IsString(info[1]) \/ ~IsString(info[2])
    THEN Outcome(B, "TypeError", NoValue)
    ELSE LET key == info[1].str
             content == info[2].str
             program == [ content    |-> content,
                          categories |-> CategoriesArg(info),
                          hash       |-> XXH3_64bits(content) ]
         IN  Outcome([B EXCEPT !.g_programs = MapPut(@, key, program)], "", NoValue)

RemoveProgramOp(B, info) ==
    IF Len(info) < 1 \/ ~IsString(info[1])
    THEN Outcome(B, "TypeError", NoValue)
    ELSE LET key == info[1].str
         IN  Outcome([B EXCEPT !.g_programs = MapErase(@, key)], "",
                     ReturnBoolean(key \in DOMAIN B.g_programs))

RemoveProgramsByCategoryOp(B, info) ==
    IF Len(info) < 1 \/ ~IsString(info[1])
    THEN Outcome(B, "TypeError", NoValue)
    ELSE LET category == info[1].str
             gone == {k \in DOMAIN B.g_programs :
                         category \in Range(B.g_programs[k].categories)}
         IN  Outcome([B EXCEPT !.g_programs =
                          [k \in DOMAIN B.g_programs \ gone |-> B.g_programs[k]]],
                     "", ReturnNumber(Cardinality(gone)))

RemoveAllProgramsOp(B) ==
    Outcome([B EXCEPT !.g_programs = <<>>], "", NoValue)

\* parse_refs_or_throw: whether it throws, and the std::set it returns.
RefsRejected(x) == ~IsArray(x) \/ \E i \in DOMAIN x.arr : ~IsString(x.arr[i])
ParsedRefs(x) == {x.arr[i].str : i \in DOMAIN x.arr}

\* expand_refs_to_programs, the loop over the refs (in the set's order):
\* selected maps a key to the program and the category it was found by.
RECURSIVE EmplaceAll(_, _, _, _)
EmplaceAll(selected, G, keys, ref) ==
    IF keys = {} THEN selected
    ELSE LET key == CHOOSE k \in keys : TRUE
         IN  EmplaceAll(MapEmplace(selected, key, [program |-> G[key], category |-> ref]),
                        G, keys \ {key}, ref)

RECURSIVE SelectRefs(_, _, _)
SelectRefs(selected, G, refs) ==
    IF refs = <<>> THEN selected
    ELSE LET ref == Head(refs)
             next ==
                 IF ref \in DOMAIN G
                 THEN MapEmplace(selected, ref, [program |-> G[ref], category |-> ""])
                 ELSE EmplaceAll(selected, G,
                                 {k \in DOMAIN G : ref \in Range(G[k].categories)}, ref)
         IN  SelectRefs(next, G, Tail(refs))

\* expand_refs_to_programs: the handler's calls, in the order of the keys.
expand_refs_to_programs(G, refs) ==
    LET selected == SelectRefs(<<>>, G, InOrder(refs))
        keys == InOrder(DOMAIN selected)
    IN  [i \in DOMAIN keys |-> [ key      |-> keys[i],
                                 program  |-> selected[keys[i]].program,
                                 category |-> selected[keys[i]].category ]]

\* Solve: the bytes streamed into the hash state.
RECURSIVE SelectedHashes(_)
SelectedHashes(sel) ==
    IF sel = <<>> THEN <<>>
    ELSE LittleEndian(Head(sel).program.hash, HASH_BYTES) \o SelectedHashes(Tail(sel))
SolveHash(text, sel) == XXH3_64bits_digest(Utf8Value(text) \o SelectedHashes(sel))

\* How a run of the engine goes: without a message, with a warning, or with
\* a failing call; the calls are in the order Solve makes them, "add" being
\* clingo_control_add of the first selected program.  A failing call leaves
\* a non-zero clingo_error_code() and logs a runtime-error message.
EngineRuns == {"none", "warning", "new", "add", "main", "ground", "solve", "get"}
Fails(run, sel) == run \notin {"none", "warning", "add"} \/ (run = "add" /\ sel # <<>>)
WarningMessage == [isError |-> FALSE, message |-> "warning"]
ErrorMessage == [isError |-> TRUE, message |-> "error"]

\* What the engine answers: it stands for the answer sets of the text and
\* the parts given to it, and so names them.
Parts(sel) == [i \in DOMAIN sel |-> [key |-> sel[i].key, content |-> sel[i].program.content]]
Answers(text, sel) == [text |-> text, parts |-> Parts(sel)]

\* Solve: g_results.find(hash) != g_results.end()
CacheHasNever(B, hash) == FALSE
CacheHas(B, hash) == hash \in DOMAIN B.g_results

\* Solve left through handle_clingo_error's throw: the logger has collected
\* the engine's message; the statements after the failing call are not run.
FailedRunCached(B, hash) ==
    [B EXCEPT !.g_errorMessages = Append(@, ErrorMessage),
              !.g_results = MapPut(@, hash, [result |-> [answers |-> NoAnswers,
                                                         logs |-> <<ErrorMessage>>]])]
FailedRun(B, hash) ==
    [B EXCEPT !.g_errorMessages = Append(@, ErrorMessage)]

\* Solve, from the cache lookup on.
LookupOrRun(B, text, sel, hash, run) ==
    IF CacheHas(B, hash)
    THEN [Outcome(B, "", ReturnResult(B.g_results[hash].result))
            EXCEPT !.hash = hash, !.hit = TRUE, !.selected = sel]
    ELSE LET logs == IF run = "warning" THEN <<WarningMessage>> ELSE <<>>
             B1 == [B EXCEPT !.g_errorMessages = logs]
         IN  IF Fails(run, sel)
             THEN [Outcome(FailedRun(B1, hash), "Error", NoValue)
                     EXCEPT !.hash = hash, !.ran = TRUE, !.selected = sel]
             ELSE LET solved == [answers |-> Answers(text, sel), logs |-> logs]
                  IN  [Outcome([B1 EXCEPT !.g_results = MapPut(@, hash, [result |-> solved])],
                               "", ReturnResult(solved))
                         EXCEPT !.hash = hash, !.ran = TRUE, !.selected = sel]

SolveOp(B, info, run) ==
    IF Len(info) < 1 \/ ~IsString(info[1])
    THEN Outcome(B, "TypeError", NoValue)
    ELSE IF Len(info) >= 2 /\ RefsRejected(info[2])
    THEN Outcome(B, "TypeError", NoValue)
    ELSE LET text == info[1].str
             refs == IF Len(info) >= 2 THEN ParsedRefs(info[2]) ELSE {}
             sel == expand_refs_to_programs(B.g_programs, refs)
         IN  LookupOrRun(B, text, sel, SolveHash(text, sel), run)

\* BuildProgram: what the handler writes to completeProgram for one
\* selected program, as the sequence of the strings streamed into it.
WriteProgramDirectOnly(e) ==
    IF e.category # ""
    THEN <<>>
    ELSE <<"% Program: ", e.key, "\n", e.program.content, "\n\n">>
WriteProgram(e) ==
    IF e.category # ""
    THEN <<"% Program: ", e.key, " (category: ", e.category, ")\n", e.program.content, "\n\n">>
    ELSE <<"% Program: ", e.key, "\n", e.program.content, "\n\n">>

RECURSIVE WritePrograms(_)
WritePrograms(sel) ==
    IF sel = <<>> THEN <<>> ELSE WriteProgram(Head(sel)) \o WritePrograms(Tail(sel))

BuildProgramOp(B, info) ==
    IF Len(info) < 1 \/ ~IsString(info[1])
    THEN Outcome(B, "TypeError", NoValue)
    ELSE IF Len(info) >= 2 /\ RefsRejected(info[2])
    THEN Outcome(B, "TypeError", NoValue)
    ELSE LET mainProgram == info[1].str
             refs == IF Len(info) >= 2 THEN ParsedRefs(info[2]) ELSE {}
             sel == expand_refs_to_programs(B.g_programs, refs)
         IN  Outcome(B, "", ReturnString(WritePrograms(sel)
                                         \o <<"% Main program\n", mainProgram>>))

\* The arguments the host functions are called with.
SetProgramInfos ==
    { <<JsString("a"), JsString("p"), JsArray(<<JsString("c")>>)>>,
      <<JsString("a"), JsString("q")>>,
      <<JsString("b"), JsString("p")>>,
      <<JsString(""), JsString("p")>>,
      <<JsString("a")>>,
      <<JsNumber, JsString("p")>>,
      <<JsString("b"), JsString("p"), JsNumber>>,
      <<JsString("a"), JsString("p"), JsArray(<<JsNumber, JsString("c")>>)>> }
RemoveProgramInfos == { <<JsString("a")>>, <<JsString("b")>>, <<>> }
RemoveProgramsByCategoryInfos == { <<JsString("c")>>, <<JsNumber>> }
SolveInfos ==
    { <<JsString(QueryQ)>>,
      <<JsString(QueryQ), JsArray(<<JsString("a")>>)>>,
      <<JsString(QueryQ), JsArray(<<JsString("c"), JsString("b")>>)>>,
      <<JsString(QueryQ1)>>,
      <<JsString(QueryQ), JsNumber>>,
      <<>> }
BuildProgramInfos ==
    { <<JsString(QueryQ)>>,
      <<JsString(QueryQ), JsArray(<<JsString("a")>>)>>,
      <<JsString(QueryQ), JsArray(<<JsString("c"), JsString("b")>>)>>,
      <<JsString(QueryQ), JsArray(<<JsString("a"), JsNumber>>)>>,
      <<>> }

SetBinding(o, op, info) ==
    /\ g_programs' = o.after.g_programs
    /\ g_results' = o.after.g_results
    /\ g_errorMessages' = o.after.g_errorMessages
    /\ bindLast' = [ op |-> op, info |-> info, threw |-> o.threw, ret |-> o.ret,
                     hash |-> o.hash, hit |-> o.hit, ran |-> o.ran,
                     selected |-> o.selected ]

SetProgram(info) ==
    /\ SetBinding(SetProgramOp(Binding, info), "SetProgram", info)
    /\ UNCHANGED <<cacheVars, storeVars, solverVars>>

RemoveProgram(info) ==
    /\ SetBinding(RemoveProgramOp(Binding, info), "RemoveProgram", info)
    /\ UNCHANGED <<cacheVars, storeVars, solverVars>>

RemoveProgramsByCategory(info) ==
    /\ SetBinding(RemoveProgramsByCategoryOp(Binding, info), "RemoveProgramsByCategory", info)
    /\ UNCHANGED <<cacheVars, storeVars, solverVars>>

RemoveAllPrograms ==
    /\ SetBinding(RemoveAllProgramsOp(Binding), "RemoveAllPrograms", <<>>)
    /\ UNCHANGED <<cacheVars, storeVars, solverVars>>

Solve(info, run) ==
    LET o == SolveOp(Binding, info, run)
    IN  /\ Cardinality(DOMAIN o.after.g_results) <= MaxCached
        /\ SetBinding(o, "Solve", info)
        /\ UNCHANGED <<cacheVars, storeVars, solverVars>>

BuildProgram(info) ==
    /\ SetBinding(BuildProgramOp(Binding, info), "BuildProgram", info)
    /\ UNCHANGED <<cacheVars, storeVars, solverVars>>

BindInit ==
    /\ g_programs = <<>>
    /\ g_results = <<>>
    /\ g_errorMessages = <<>>
    /\ bindLast = [ op |-> "none", info |-> <<>>, threw |-> "", ret |-> NoValue,
                    hash |-> <<>>, hit |-> FALSE, ran |-> FALSE, selected |-> <<>> ]

BindNext ==
    \/ \E info \in SetProgramInfos : SetProgram(info)
    \/ \E info \in RemoveProgramInfos : RemoveProgram(info)
    \/ \E info \in RemoveProgramsByCategoryInfos : RemoveProgramsByCategory(info)
    \/ RemoveAllPrograms
    \/ \E info \in SolveInfos, run \in EngineRuns : Solve(info, run)
    \/ \E info \in BuildProgramInfos : BuildProgram(info)

-----------------------------------------------------------------------------
(* clingo_solver.cc: ClingoSolver::solve and its grounding callback.       *)

\* helpers.cc next_local_midnight_epoch_ms: local days are DayLength clock
\* units long and start at multiples of it.
DayLength == 2
next_local_midnight_epoch_ms(t) == ((t \div DayLength) + 1) * DayLength

\* get_function_handlers: the names that have a handler.
FunctionHandlers ==
    {"concatenate", "daysSince", "today", "wrap", "resourcePrefix", "resourceType",
     "resourceIdentifier"}

\* ground_callback for one external function: [todayCalled, ok]; ok is what
\* the handler returns (handlerOk), true when the name has no handler.
ground_callback(flag, name, handlerOk) ==
    IF name \in FunctionHandlers
    THEN [todayCalled |-> IF name = "today" THEN TRUE ELSE flag, ok |-> handlerOk]
    ELSE [todayCalled |-> flag, ok |-> TRUE]

\* clingo_control_ground: the callbacks for the external functions the
\* program uses, in turn, up to the first that fails (only the last of the
\* calls of a run may fail): [todayCalled, ok].
RECURSIVE GroundCalls(_, _, _)
GroundCalls(flag, calls, lastOk) ==
    IF calls = <<>> THEN [todayCalled |-> flag, ok |-> TRUE]
    ELSE LET c == ground_callback(flag, Head(calls), Len(calls) > 1 \/ lastOk)
         IN  IF c.ok THEN GroundCalls(c.todayCalled, Tail(calls), lastOk) ELSE c

Solver == [todayCalled |-> todayCalled, errorMessages |-> errorMessages, answers |-> answers]

\* errorResult: valid_until is not among its initialisers and is zero.
errorResultUnnamed(S, key) ==
    [ isError |-> TRUE, answers |-> <<>>, logs |-> S.errorMessages, key |-> "",
      valid_until |-> 0 ]
errorResultWithAnswers(S, key) ==
    [ isError |-> TRUE, answers |-> S.answers, logs |-> S.errorMessages, key |-> key,
      valid_until |-> 0 ]
errorResult(S, key) ==
    [ isError |-> TRUE, answers |-> <<>>, logs |-> S.errorMessages, key |-> key,
      valid_until |-> 0 ]

\* solve, "todayCalled = false"
KeepTodayCalled(flag) == flag
ResetTodayCalled(flag) == FALSE

\* How a run of the engine goes: the call that fails (fail), the external
\* functions grounding calls (calls), whether the last of them succeeds
\* (handlerOk), whether the engine logs a warning (warns).
SolverRun(fail, calls, handlerOk, warns) ==
    [fail |-> fail, calls |-> calls, handlerOk |-> handlerOk, warns |-> warns]

\* The clingo calls a solve makes, in turn: clingo_control_new, one
\* clingo_control_add per program, ground, solve, clingo_solve_handle_get.
EngineCall(name, part) == [call |-> name, part |-> part]
AddCalls(progs, upto) == [i \in 1..upto |-> EngineCall("add", progs[i].key)]

\* solve, the loop over query.programs: the index of the program whose
\* clingo_control_add fails, 0 when none does.
AddFailsAt(run, progs) ==
    IF progs = <<>> THEN 0
    ELSE IF run.fail = "add" THEN 1
    ELSE IF run.fail = "addLast" THEN Len(progs)
    ELSE 0

\* ClingoSolver::solve at clock t: [solver, ret, engine]; engine is the
\* clingo calls made.  A failing on_model (fail = "model") has pushed the
\* answers collected so far and makes clingo_solve_handle_get fail.
solveOp(S, query, run, t) ==
    LET logs == IF run.warns THEN <<WarningMessage>> ELSE <<>>
        failed == Append(logs, ErrorMessage)
        S0 == [S EXCEPT !.errorMessages = logs,
                        !.todayCalled = ResetTodayCalled(S.todayCalled)]
        E0 == [S0 EXCEPT !.errorMessages = failed]
        g == GroundCalls(S0.todayCalled, run.calls, run.handlerOk)
        S1 == [S0 EXCEPT !.todayCalled = g.todayCalled]
        E1 == [S1 EXCEPT !.errorMessages = failed]
        S2 == [S1 EXCEPT !.answers = <<Parts(query.programs)>>]
        E2 == [S2 EXCEPT !.errorMessages = failed]
        k == AddFailsAt(run, query.programs)
        new == <<EngineCall("new", "")>>
        added == new \o AddCalls(query.programs, Len(query.programs))
        grounded == Append(added, EngineCall("ground", ""))
        solved == Append(grounded, EngineCall("solve", ""))
        got == Append(solved, EngineCall("get", ""))
    IN  IF run.fail = "new"
        THEN [solver |-> E0, ret |-> errorResult(E0, ""), engine |-> new]
        ELSE IF k # 0
        THEN [solver |-> E0, ret |-> errorResult(E0, query.programs[k].key),
              engine |-> new \o AddCalls(query.programs, k)]
        ELSE IF run.fail = "ground" \/ ~g.ok
        THEN [solver |-> E1, ret |-> errorResult(E1, ""), engine |-> grounded]
        ELSE IF run.fail = "solve"
        THEN [solver |-> [E1 EXCEPT !.answers = <<>>],
              ret |-> errorResult([E1 EXCEPT !.answers = <<>>], ""), engine |-> solved]
        ELSE IF run.fail \in {"model", "get"}
        THEN [solver |-> E2, ret |-> errorResult(E2, ""), engine |-> got]
        ELSE [solver |-> S2,
              ret |-> [ isError |-> FALSE, answers |-> S2.answers, logs |-> S2.errorMessages,
                        key |-> "",
                        valid_until |-> IF S2.todayCalled
                                        THEN next_local_midnight_epoch_ms(t) ELSE 0 ],
              engine |-> got]

\* The queries and engine runs solve is called with.
SolverPrograms(keys) ==
    [i \in DOMAIN keys |-> [key |-> keys[i], program |-> [content |-> "p"]]]
SolverQueries ==
    { [programs |-> SolverPrograms(<<"__program__">>)],
      [programs |-> SolverPrograms(<<"a", "__program__">>)] }
SolverCalls ==
    { <<>>, <<"today">>, <<"concatenate">>, <<"daysSince">>, <<"daysSince", "today">>, <<"now">> }
SolverFailures == {"none", "new", "add", "addLast", "ground", "solve", "model", "get"}
SolverRuns ==
    { SolverRun(fail, calls, TRUE, FALSE) : fail \in SolverFailures, calls \in SolverCalls }
    \cup { SolverRun(fail, calls, FALSE, FALSE) :
              fail \in {"none", "add"}, calls \in SolverCalls }
    \cup { SolverRun("none", <<"today">>, TRUE, TRUE) }

solve(query, run) ==
    LET o == solveOp(Solver, query, run, now)
    IN  /\ todayCalled' = o.solver.todayCalled
        /\ errorMessages' = o.solver.errorMessages
        /\ answers' = o.solver.answers
        /\ solverLast' = [op |-> "solve", query |-> query, run |-> run, at |-> now,
                          flagBefore |-> todayCalled, ret |-> o.ret, engine |-> o.engine]
        /\ UNCHANGED <<cacheVars, storeVars, bindVars>>

SolverInit ==
    /\ todayCalled = FALSE
    /\ errorMessages = <<>>
    /\ answers = <<>>
    /\ solverLast = [op |-> "none", query |-> [programs |-> <<>>],
                     run |-> SolverRun("none", <<>>, TRUE, FALSE), at |-> 0,
                     flagBefore |-> FALSE,
                     ret |-> errorResult([errorMessages |-> <<>>, answers |-> <<>>], ""),
                     engine |-> <<>>]

SolverNext ==
    \/ \E query \in SolverQueries, run \in SolverRuns : solve(query, run)
    \/ Tick

Init == CacheInit /\ StoreInit /\ BindInit /\ SolverInit

SpecCache == Init /\ [][CacheNext]_vars

SpecStore == Init /\ [][StoreNext]_vars

SpecBinding == Init /\ [][BindNext]_vars

SpecSolver == Init /\ [][SolverNext]_vars

-----------------------------------------------------------------------------
(* Properties of the result cache, checked under SpecCache.                *)

RECURSIVE SumSizes(_)
SumSizes(e) ==
    IF DOMAIN e = {} THEN 0
    ELSE LET k == CHOOSE x \in DOMAIN e : TRUE
         IN  e[k].sizeBytes + SumSizes(MapErase(e, k))

Without(s, x) == SelectSeq(s, LAMBDA y : y # x)

LastAdd == cacheLast.op = "addResult"
LastLookup == cacheLast.op = "result"
ArgBytes == estimateSizeBytes(cacheLast.arg)
ArgOversized == ArgBytes > CACHE_CAPACITY_BYTES

\* C1: after any sequence of addResult and result calls, the estimated sizes
\* of the cached entries sum to at most the capacity.
C1_TotalWithinCapacity == SumSizes(entries) <= CACHE_CAPACITY_BYTES

\* C1 witness: an insert of a new fingerprint that did not fit next to what
\* was cached, and is cached now.
C1_Witness ==
    /\ LastAdd
    /\ cacheLast.hash \notin DOMAIN cacheLast.pre.entries
    /\ SumSizes(cacheLast.pre.entries) + ArgBytes > CACHE_CAPACITY_BYTES
    /\ cacheLast.hash \in DOMAIN entries

\* C2: the entries an insert evicts are the tail of the recency list: what
\* stays of the other fingerprints is a prefix of the old list, with the
\* results and sizes it had; whatever the sizes and expiry of the entries.
\* With room for two entries and b inserted after a, inserting a third
\* leaves b and the new entry cached, and a lookup of a misses.
C2_EvictsFromTail ==
    LastAdd =>
        LET h == cacheLast.hash
            old == Without(cacheLast.pre.lru, h)
            kept == Without(lru, h)
            P == cacheLast.pre
        IN  /\ IsPrefix(kept, old)
            /\ DOMAIN entries \ {h} = Range(kept)
            /\ \A k \in Range(kept) : entries[k] = P.entries[k]
            /\ \A a, b \in DOMAIN P.entries :
                  ( /\ P.lru = <<b, a>> /\ h \notin {a, b}
                    /\ P.currentBytes + ArgBytes > CACHE_CAPACITY_BYTES
                    /\ P.currentBytes - P.entries[a].sizeBytes + ArgBytes
                         <= CACHE_CAPACITY_BYTES )
                  => /\ DOMAIN entries = {b, h}
                     /\ resultOp(Cache, a, now).ret = FALSE

\* C2 witness: an insert evicted a never-expiring entry from the tail and
\* kept a more recently used entry that is expired already and no smaller.
C2_Witness ==
    /\ LastAdd
    /\ \E k \in DOMAIN entries \ {cacheLast.hash},
          e \in DOMAIN cacheLast.pre.entries \ (DOMAIN entries \cup {cacheLast.hash}) :
          /\ entries[k].result.valid_until > 0
          /\ now > entries[k].result.valid_until
          /\ cacheLast.pre.entries[e].result.valid_until = 0
          /\ cacheLast.pre.entries[e].sizeBytes <= entries[k].sizeBytes

\* C3 as claimed: an insert of a result larger than the capacity leaves the
\* cache as it was, whether or not the fingerprint is cached.
C3_OversizedLeavesCacheUnchanged ==
    (LastAdd /\ ArgOversized) => Cache = cacheLast.pre

\* C3 amended: an insert of a result larger than the capacity removes the
\* entry cached under the same fingerprint, if any, and changes nothing else.
C3_OversizedOnlyDropsOwnEntry ==
    (LastAdd /\ ArgOversized) =>
        LET h == cacheLast.hash
            P == cacheLast.pre
        IN  /\ DOMAIN entries = DOMAIN P.entries \ {h}
            /\ \A k \in DOMAIN entries : entries[k] = P.entries[k]
            /\ lru = Without(P.lru, h)
            /\ currentBytes = P.currentBytes
                              - (IF h \in DOMAIN P.entries THEN P.entries[h].sizeBytes ELSE 0)

\* C3 witness: an oversized insert under a cached fingerprint, next to
\* another cached entry.
C3_Witness ==
    /\ LastAdd /\ ArgOversized
    /\ cacheLast.hash \in DOMAIN cacheLast.pre.entries
    /\ entries # <<>>

\* C4: a lookup of an entry whose non-zero valid_until has passed is a miss
\* and removes the entry from the map, the list and the byte count, leaving
\* the other entries alone; and no hit returns a result whose valid_until
\* has passed.
C4_ExpiredLookupMissesAndRemoves ==
    LastLookup =>
        LET h == cacheLast.hash
            P == cacheLast.pre
        IN  /\ ( /\ h \in DOMAIN P.entries
                 /\ P.entries[h].result.valid_until # 0
                 /\ cacheLast.at > P.entries[h].result.valid_until )
               => /\ cacheLast.ret = FALSE
                  /\ DOMAIN entries = DOMAIN P.entries \ {h}
                  /\ \A k \in DOMAIN entries : entries[k] = P.entries[k]
                  /\ lru = Without(P.lru, h)
                  /\ h \notin Range(lru)
                  /\ currentBytes = P.currentBytes - P.entries[h].sizeBytes
            /\ cacheLast.ret = TRUE
               => ~ ( cacheLast.out.valid_until # 0
                      /\ cacheLast.at > cacheLast.out.valid_until )

\* C4 witness: a lookup found an expired entry, with another entry cached.
C4_Witness ==
    /\ LastLookup
    /\ cacheLast.hash \in DOMAIN cacheLast.pre.entries
    /\ cacheLast.pre.entries[cacheLast.hash].result.valid_until # 0
    /\ cacheLast.at > cacheLast.pre.entries[cacheLast.hash].result.valid_until
    /\ entries # <<>>

-----------------------------------------------------------------------------
(* Properties of the program store, checked under SpecStore.               *)

\* The reference lists the properties range over.
AllRefs == {<<>>} \cup {<<x>> : x \in Strings} \cup {<<x, y>> : x, y \in Strings}
PermRefLists ==
    {<<"a", "b">>, <<"a", "c">>, <<"b", "c">>, <<"a", "b", "c">>, <<"a", "c", "c">>}

Bijections(D) == {f \in [D -> D] : \A i, j \in D : i # j => f[i] # f[j]}
Perms(refs) == {[i \in DOMAIN refs |-> refs[f[i]]] : f \in Bijections(DOMAIN refs)}

\* The fingerprints prepareQuery may return on store S.
Fingerprints(S, query, refs, H) ==
    {Q.hash : Q \in prepareQueryOp(S, query, refs, H).queries}

\* The fragments resolve may return on store S, as a set.
Resolved(S, refs, H) == Range(ResolveLoop(S, refs, <<>>, H).found)

Registered == Range(programs)
IsRegisteredKey(k) == \E o \in Registered : o.key = k
IsRegisteredTag(t) == \E o \in Registered : t \in Range(o.tags)
FragmentOf(k) == CHOOSE o \in Registered : o.key = k

\* What a caller sees of a fragment and of a Query.
View(o) == [key |-> o.key, content |-> o.content, tags |-> Range(o.tags), hash |-> o.hash]
QueryView(Q) == [hash |-> Q.hash, programs |-> [i \in DOMAIN Q.programs |-> View(Q.programs[i])]]
QueryViews(S, query, refs, H) ==
    {QueryView(Q) : Q \in prepareQueryOp(S, query, refs, H).queries}

\* C5: for any query text and any two reference lists that are permutations
\* of each other, prepareQuery on the same store yields one and the same
\* fingerprint (also when the second call follows the first, which interned
\* the references).
C5_FingerprintOrderIndependent ==
    \A query \in QueryTexts, refs \in PermRefLists :
        LET fp == Fingerprints(Store, query, refs, held)
            after == prepareQueryOp(Store, query, refs, held).store
        IN  /\ Cardinality(fp) = 1
            /\ \A p \in Perms(refs) :
                  /\ Fingerprints(Store, query, p, held) = fp
                  /\ Fingerprints(after, query, p, held) = fp

\* C5 witness: a caller got a Query for references given in the opposite of
\* the content-hash order of the two fragments they name.
C5_Witness ==
    /\ held # NoQuery
    /\ held.refs = <<"b", "a">>
    /\ Len(held.out.programs) = 3
    /\ held.out.programs[1].key = "a"
    /\ held.out.programs[2].key = "b"
    /\ held.out.hash \in Fingerprints(Store, held.query, <<"a", "b">>, held)

\* A store built from scratch by registering the fragments objs (oldest first).
RECURSIVE Rebuild(_, _, _)
Rebuild(S, objs, n) ==
    IF objs = {} THEN S
    ELSE LET o == CHOOSE x \in objs : \A y \in objs : x.id <= y.id
         IN  Rebuild(addProgramOp(S, o.key, o.content, o.tags, n), objs \ {o}, n + 1)
FreshStore == Rebuild(EmptyStore, Registered, 1)

\* C6: the fingerprint and the fragments prepareQuery returns depend only on
\* the query text, the references and the registered fragments: the store,
\* whatever its history, answers like a new store in which just its
\* registered fragments were registered.
C6_QueryDependsOnRegisteredOnly ==
    \A query \in QueryTexts, refs \in AllRefs :
        QueryViews(Store, query, refs, held) = QueryViews(FreshStore, query, refs, NoQuery)

\* C7: a reference that is no registered key and no tag of a registered
\* fragment contributes no fragment to what resolve returns.
C7_UnknownReferenceResolvesToNothing ==
    \A r \in Strings :
        (~IsRegisteredKey(r) /\ ~IsRegisteredTag(r)) =>
            \A refs \in {<<>>} \cup {<<x>> : x \in Strings} :
                Resolved(Store, Append(refs, r), held) = Resolved(Store, refs, held)

\* C8: removeProgramByKey(key) returns true exactly when a fragment is
\* registered under key; for a key that is not registered it removes nothing.
C8_RemoveReportsWhetherKeyWasRegistered ==
    \A key \in Strings, asEl \in BOOLEAN :
        LET r == removeProgramByKeyOp(Store, key, asEl)
        IN  /\ r.ret = IsRegisteredKey(key)
            /\ ~IsRegisteredKey(key) => Range(r.store.programs) = Registered

\* C9: right after removeProgramByKey(k) removed the fragment registered
\* under k, no resolve returns that fragment, through k or through a tag,
\* also while a caller keeps a Query with it.
C9_RemovedFragmentNeverResolved ==
    [][ \A key \in Strings, asEl \in BOOLEAN :
          (removeProgramByKey(key, asEl) /\ IsRegisteredKey(key)) =>
              \A refs \in AllRefs : FragmentOf(key) \notin Resolved(Store', refs, held') ]_vars

\* C10: after addProgram(k, content2, tags2) replaced the fragment
\* (k, content1, tags1): resolving [k] yields exactly one fragment, with
\* content2; resolving a tag of tags1 that is not in tags2 yields no
\* fragment with key k; and, when content2 differs from content1, a query
\* referencing k gets another fingerprint than before.
C10_ReplacementTakesEffect ==
    [][ \A f \in Fragments :
          (addProgram(f.key, f.content, f.categories) /\ IsRegisteredKey(f.key)) =>
              LET old == FragmentOf(f.key)
              IN  /\ \A v \in programByReferences(Store', <<f.key>>, held').results :
                        Len(v) = 1 /\ v[1].key = f.key /\ v[1].content = f.content
                  /\ \A t \in Range(old.tags) \ Range(f.categories) :
                        \A o \in Resolved(Store', <<t>>, held') : o.key # f.key
                  /\ f.content # old.content =>
                        \A query \in QueryTexts :
                            Fingerprints(Store', query, <<f.key>>, held')
                              \cap Fingerprints(Store, query, <<f.key>>, held) = {} ]_vars


\* The live fragments of the category index entry of tag c: the elements of
\* the vector kept under c's KeyHash whose object still exists.
CategoryEntry(c) ==
    IF c \in DOMAIN key_to_hash /\ key_to_hash[c] \in DOMAIN programs_by_category
    THEN {o \in Range(programs_by_category[key_to_hash[c]]) : o \in Owned(Store, held)}
    ELSE {}

\* C11: in every reachable store state and for every tag c, the category
\* index entry of c holds exactly the registered fragments whose tags
\* include c: no removed fragment, no replaced version, none missing.
C11_CategoryIndexMatchesRegistered ==
    \A c \in Strings :
        CategoryEntry(c) = {o \in Registered : c \in Range(o.tags)}

\* What resolve(refs) is to return: per reference, the fragment registered
\* under it as a key, else the registered fragments tagged with it.
ExpectedOf(r) ==
    IF IsRegisteredKey(r) THEN {FragmentOf(r)}
    ELSE {o \in Registered : r \in Range(o.tags)}
Expected(refs) == UNION {ExpectedOf(refs[i]) : i \in DOMAIN refs}

\* C12: the set of fragments resolve(refs) returns is the union over the
\* references r of the fragment registered under key r, if r is a registered
\* key, and of the registered fragments tagged r otherwise.
C12_ResolveIsUnionOfMatches ==
    \A refs \in AllRefs : Resolved(Store, refs, held) = Expected(refs)


\* Reference lists that repeat a reference or can name one fragment by key
\* and by tag.
DedupRefLists ==
    AllRefs \cup {<<"a", "c", "a">>, <<"c", "a", "c">>, <<"c", "b", "c">>, <<"a", "b", "c">>}

AtMostOnce(v) == \A i, j \in DOMAIN v : i # j => v[i].id # v[j].id

\* C13: for every reference list, also one that repeats a reference or names
\* a fragment by key and by tag, resolve returns a vector in which every
\* fragment (object) occurs at most once; so does the Query a caller got.
C13_ResolvedAtMostOnce ==
    /\ \A refs \in DedupRefLists :
          LET r == programByReferences(Store, refs, held)
          IN  r.results # {} /\ \A v \in r.results : AtMostOnce(v)
    /\ held # NoQuery => AtMostOnce(held.out.programs)

\* C13 witness: a caller got a Query for a fragment named by its key and by
\* its tag, and the fragment is in it once.
C13_Witness ==
    /\ held # NoQuery
    /\ held.refs = <<"a", "c">>
    /\ \E i \in DOMAIN held.out.programs :
          /\ held.out.programs[i].key = "a"
          /\ "c" \in Range(held.out.programs[i].tags)
          /\ held.out.programs[i] \in Registered
    /\ Len(held.out.programs) = 2


NonDecreasing(v) == \A i, j \in DOMAIN v : i < j => v[i].hash <= v[j].hash

\* C14: the vector resolve returns is in non-decreasing content-hash order
\* and is determined by the set of matched fragments: reference lists that
\* name the same fragments in another order get the identical vector, also
\* when two of the fragments have equal content hashes.
C14_ResolvedOrderDetermined ==
    \A refs \in PermRefLists :
        LET res == programByReferences(Store, refs, held).results
        IN  /\ \A v \in res : NonDecreasing(v)
            /\ Cardinality(res) = 1
            /\ \A p \in Perms(refs) :
                  programByReferences(Store, p, held).results = res


\* A step of one of the store's modifying operations.
StoreModifies ==
    \/ \E f \in Fragments : addProgram(f.key, f.content, f.categories)
    \/ \E key \in Strings, asEl \in BOOLEAN : removeProgramByKey(key, asEl)
    \/ removeAllPrograms

-----------------------------------------------------------------------------
(* Properties of the host functions of binding.cc, checked under           *)
(* SpecBinding.                                                            *)

LastSolve == bindLast.op = "Solve" /\ bindLast.threw # "TypeError"
ContentsOf(parts) == {parts[i].content : i \in DOMAIN parts}

\* C16: a solve answered from the cache returns a result that was computed
\* for the same query text and the same contents of the resolved fragments
\* (content hashes and the digest taken as collision-free), whatever
\* registrations, replacements and removals came before.
C16_HitServesSameInput ==
    (LastSolve /\ bindLast.hit) =>
        /\ bindLast.ret.result.answers.text = bindLast.info[1].str
        /\ ContentsOf(bindLast.ret.result.answers.parts)
             = ContentsOf(Parts(bindLast.selected))


\* A step of Solve that got past the checks of its arguments (every host
\* function records its name in bindLast).
SolveStep ==
    /\ bindLast'.op = "Solve"
    /\ bindLast'.threw # "TypeError"
BindingAfter == [ g_programs      |-> g_programs',
                  g_results       |-> g_results',
                  g_errorMessages |-> g_errorMessages' ]

C18_EngineRunsIffMiss ==
    [][ SolveStep =>
          LET h == bindLast'.hash
          IN  /\ bindLast'.ran <=> h \notin DOMAIN g_results
              /\ h \in DOMAIN g_results =>
                    /\ bindLast'.threw = ""
                    /\ bindLast'.ret.result = g_results[h].result
                    /\ g_results' = g_results
              /\ (h \notin DOMAIN g_results /\ bindLast'.threw = "") =>
                    /\ h \in DOMAIN g_results'
                    /\ g_results'[h].result = bindLast'.ret.result
                    /\ \A k \in DOMAIN g_results : g_results'[k] = g_results[k] ]_vars

\* C18 witness: a Solve was answered from the cache, without the engine.
C18_Witness ==
    /\ LastSolve
    /\ bindLast.hit
    /\ ~bindLast.ran
    /\ bindLast.selected # <<>>
    /\ bindLast.ret.result = g_results[bindLast.hash].result


\* C20: setProgram with the empty string as key is rejected: it reports an
\* error and leaves the registered programs as they were.
C20_EmptyKeyRejected ==
    [][ \A info \in SetProgramInfos :
          (SetProgram(info) /\ Len(info) >= 1 /\ IsString(info[1]) /\ info[1].str = "") =>
              /\ bindLast'.threw # ""
              /\ g_programs' = g_programs ]_vars


-----------------------------------------------------------------------------
(* Properties of ClingoSolver::solve, checked under SpecSolver.            *)

LastSolverSolve == solverLast.op = "solve"
TodayInvoked == "today" \in Range(solverLast.run.calls)

\* C19: a successful result of solve has a non-zero valid_until, the next
\* local midnight, exactly when grounding called the today function in this
\* same solve, whatever an earlier solve on the solver did; an error result
\* has valid_until zero.
C19_ValidUntilIffTodayCalled ==
    LastSolverSolve =>
        LET r == solverLast.ret
        IN  /\ r.isError => r.valid_until = 0
            /\ ~r.isError =>
                  /\ r.valid_until # 0 <=> TodayInvoked
                  /\ TodayInvoked =>
                        /\ r.valid_until > solverLast.at
                        /\ r.valid_until - solverLast.at <= DayLength
                        /\ r.valid_until % DayLength = 0

\* C19 witness: a solve that did not call today returned an unmarked result
\* on a solver whose earlier solve had called today.
C19_Witness ==
    /\ LastSolverSolve
    /\ solverLast.flagBefore
    /\ ~solverLast.ret.isError
    /\ ~TodayInvoked
    /\ solverLast.ret.valid_until = 0


\* Whether a host call lacks an argument or has one of the wrong type: the
\* key, the program text, the category list, the reference list or an
\* element of one of the lists.
NotStringList(x) == ~IsArray(x) \/ \E i \in DOMAIN x.arr : ~IsString(x.arr[i])
BadArguments(op, info) ==
    CASE op = "SetProgram" ->
            \/ Len(info) < 2 \/ ~IsString(info[1]) \/ ~IsString(info[2])
            \/ (Len(info) >= 3 /\ NotStringList(info[3]))
      [] op \in {"RemoveProgram", "RemoveProgramsByCategory"} ->
            Len(info) < 1 \/ ~IsString(info[1])
      [] op \in {"Solve", "BuildProgram"} ->
            \/ Len(info) < 1 \/ ~IsString(info[1])
            \/ (Len(info) >= 2 /\ NotStringList(info[2]))
      [] OTHER -> FALSE

\* C21: a host call with a missing or wrong-typed argument throws and
\* leaves the registered programs and the cached results as they were.
C21_BadArgumentsRejected ==
    [][ BadArguments(bindLast'.op, bindLast'.info) =>
          /\ bindLast'.threw # ""
          /\ g_programs' = g_programs
          /\ g_results' = g_results ]_vars


-----------------------------------------------------------------------------
(* SolveResultCache: round trip, recency, expiry and bookkeeping.           *)

\* Whether a result with this valid_until counts as expired at clock t.
Expired(r, t) == r.valid_until # 0 /\ t > r.valid_until

\* The clock values a lookup can run at.
Clock == 0..(MaxClock + 1)

\* How often x occurs in s.
Count(s, x) == Cardinality({i \in DOMAIN s : s[i] = x})

\* The cached fingerprints other than h, and their total size, before the
\* last call.
OthersBefore(h) == Without(cacheLast.pre.lru, h)
BytesOf(e, keys) == SumSizes([k \in (keys \cap DOMAIN e) |-> e[k]])

\* C22: right after addResult(f, r) with r no larger than the capacity, a
\* lookup of f at any clock value at which r is not expired is a hit that
\* hands out r, whatever was cached before, an older entry of f included.
C22_InsertThenLookupHits ==
    (LastAdd /\ ~ArgOversized) =>
        \A t \in Clock :
            ~Expired(cacheLast.arg, t) =>
                LET R == resultOp(Cache, cacheLast.hash, t)
                IN  R.ret = TRUE /\ R.out = cacheLast.arg

\* C22 witness: a result was inserted under a fingerprint that held another
\* result, next to another entry, and the lookup at the current clock hits.
C22_Witness ==
    /\ LastAdd /\ ~ArgOversized
    /\ cacheLast.hash \in DOMAIN cacheLast.pre.entries
    /\ cacheLast.pre.entries[cacheLast.hash].result # cacheLast.arg
    /\ Len(cacheLast.pre.lru) > 1
    /\ ~Expired(cacheLast.arg, now)
    /\ resultOp(Cache, cacheLast.hash, now).out = cacheLast.arg

\* C23: the recency list is the cached fingerprints in the order of their
\* latest insert or lookup hit, the latest first.
C23_RecencyFollowsAccessOrder ==
    lru = SelectSeq(cacheLast.accessOrder, LAMBDA k : k \in DOMAIN entries)

\* C23 witness: a lookup hit moved the least recently used of three entries
\* to the front.
C23_Witness ==
    /\ LastLookup /\ cacheLast.ret = TRUE
    /\ Len(lru) = 3
    /\ cacheLast.pre.lru[3] = cacheLast.hash
    /\ lru[1] = cacheLast.hash

\* C24: an entry whose valid_until is 0 is found by a lookup at every clock
\* value: the lookup that ran found it, and a lookup of any such cached
\* entry at any clock value would.
C24_ZeroNeverExpires ==
    /\ \A k \in DOMAIN entries :
          entries[k].result.valid_until = 0 =>
              \A t \in Clock :
                  LET R == resultOp(Cache, k, t)
                  IN  R.ret = TRUE /\ R.out = entries[k].result
    /\ ( /\ LastLookup
         /\ cacheLast.hash \in DOMAIN cacheLast.pre.entries
         /\ cacheLast.pre.entries[cacheLast.hash].result.valid_until = 0 )
       => /\ cacheLast.ret = TRUE
          /\ cacheLast.out = cacheLast.pre.entries[cacheLast.hash].result
          /\ cacheLast.hash \in DOMAIN entries

\* C24 witness: a lookup after the expiry time of the expiring results hit
\* an entry whose valid_until is 0.
C24_Witness ==
    /\ LastLookup /\ cacheLast.ret = TRUE
    /\ cacheLast.out.valid_until = 0
    /\ cacheLast.at > ExpiryAt

\* C26: an insert of a result that fits, under a cached fingerprint, leaves
\* one entry of that fingerprint, with the new result and size, at the front
\* of the recency list, and the byte count is the new size plus the sizes of
\* the other entries that stayed.
C26_InsertReplaces ==
    (LastAdd /\ ~ArgOversized /\ cacheLast.hash \in DOMAIN cacheLast.pre.entries) =>
        LET h == cacheLast.hash
        IN  /\ h \in DOMAIN entries
            /\ Count(lru, h) = 1
            /\ entries[h] = [result |-> cacheLast.arg, sizeBytes |-> ArgBytes]
            /\ lru[1] = h
            /\ currentBytes = ArgBytes + BytesOf(entries, DOMAIN entries \ {h})

\* C26 witness: a cached result was replaced by one of another size, with
\* another entry staying cached behind it.
C26_Witness ==
    /\ LastAdd /\ ~ArgOversized
    /\ cacheLast.hash \in DOMAIN cacheLast.pre.entries
    /\ cacheLast.pre.entries[cacheLast.hash].sizeBytes # ArgBytes
    /\ Len(lru) > 1

\* C27: a lookup hit moves the entry to the front and changes no entry, no
\* size and no other order; a lookup of an expired entry removes that entry
\* only; a lookup of an absent fingerprint changes nothing; and no step
\* other than an insert removes an entry of another fingerprint.  (A step
\* that leaves the clock alone is a call; cacheLast' then describes it.)
C27_LookupTouchesOnlyItsEntry ==
    [][ /\ (cacheLast'.op = "result" /\ now' = now) =>
             LET h == cacheLast'.hash
                 P == cacheLast'.pre
             IN  /\ P = Cache
                 /\ cacheLast'.ret = TRUE =>
                       /\ entries' = entries
                       /\ currentBytes' = currentBytes
                       /\ lru' = <<h>> \o Without(lru, h)
                 /\ (cacheLast'.ret = FALSE /\ h \in DOMAIN entries) =>
                       /\ entries' = MapErase(entries, h)
                       /\ currentBytes' = currentBytes - entries[h].sizeBytes
                       /\ lru' = Without(lru, h)
                 /\ h \notin DOMAIN entries => UNCHANGED <<entries, lru, currentBytes>>
        /\ cacheLast'.op # "addResult" =>
             DOMAIN entries \ DOMAIN entries' \subseteq {cacheLast'.hash}
      ]_vars

\* C27 witness: a lookup hit the least recently used of three entries.
C27_Witness ==
    /\ LastLookup /\ cacheLast.ret = TRUE
    /\ Len(cacheLast.pre.lru) = 3
    /\ cacheLast.pre.lru[1] # cacheLast.hash
    /\ currentBytes = cacheLast.pre.currentBytes

\* C28: an insert that fits evicts nothing when the other entries and the
\* new one are within the capacity; otherwise the entries that stay are the
\* most recently used ones, and the last one evicted was needed: with it
\* the total would still exceed the capacity.
C28_EvictsNoMoreThanNeeded ==
    (LastAdd /\ ~ArgOversized) =>
        LET h == cacheLast.hash
            P == cacheLast.pre
            old == OthersBefore(h)
            kept == Without(lru, h)
        IN  /\ BytesOf(P.entries, Range(old)) + ArgBytes <= CACHE_CAPACITY_BYTES
               => kept = old
            /\ IsPrefix(kept, old)
            /\ \A k \in Range(kept) : entries[k] = P.entries[k]
            /\ Len(kept) < Len(old) =>
                  BytesOf(P.entries, Range(SubSeq(old, 1, Len(kept) + 1))) + ArgBytes
                      > CACHE_CAPACITY_BYTES

\* C28 witness: an insert evicted the least recently used entry and kept
\* the one used more recently.
C28_Witness ==
    /\ LastAdd /\ ~ArgOversized
    /\ Len(OthersBefore(cacheLast.hash)) = 2
    /\ Len(lru) = 2
    /\ lru[2] = OthersBefore(cacheLast.hash)[1]

\* C29: the recency list holds exactly the keys of the entry map, each once,
\* and the byte counter is the sum of the recorded sizes.
C29_StructuresAgree ==
    /\ Range(lru) = DOMAIN entries
    /\ Len(lru) = Cardinality(DOMAIN entries)
    /\ currentBytes = SumSizes(entries)

\* C29 witness: an insert replaced the entry of its fingerprint and evicted
\* the two other entries.
C29_Witness ==
    /\ LastAdd
    /\ cacheLast.hash \in DOMAIN cacheLast.pre.entries
    /\ Cardinality(DOMAIN cacheLast.pre.entries) = 3
    /\ DOMAIN entries = {cacheLast.hash}


-----------------------------------------------------------------------------
(* binding.cc: buildProgram against solve.                                  *)

\* The programs an assembled text holds, read back from the strings written
\* to it, and what follows them.
RECURSIVE FragmentsOf(_)
FragmentsOf(T) ==
    IF T = <<>> \/ Head(T) # "% Program: " THEN <<>>
    ELSE LET at == IF T[3] = " (category: " THEN 6 ELSE 4
         IN  <<[key |-> T[2], content |-> T[at]]>> \o FragmentsOf(SubSeq(T, at + 2, Len(T)))
RECURSIVE AfterFragments(_)
AfterFragments(T) ==
    IF T = <<>> \/ Head(T) # "% Program: " THEN T
    ELSE AfterFragments(SubSeq(T, (IF T[3] = " (category: " THEN 6 ELSE 4) + 2, Len(T)))

\* What solve gives the engine on the same maps and arguments when no
\* result is cached and no call fails.
SolveSubmits(info) == SolveOp([Binding EXCEPT !.g_results = <<>>], info, "none")

\* C25: buildProgram leaves the programs and the cached results alone, it
\* throws when solve throws on the same arguments, and otherwise its text
\* holds the parts solve gives the engine, in that order, each once, and
\* then the main program.
C25_BuildProgramMatchesSolve ==
    [][ bindLast'.op = "BuildProgram" =>
          LET S == SolveSubmits(bindLast'.info)
              T == bindLast'.ret.text
              F == FragmentsOf(T)
          IN  /\ g_programs' = g_programs
              /\ g_results' = g_results
              /\ (bindLast'.threw = "TypeError") <=> (S.threw = "TypeError")
              /\ bindLast'.threw = "" =>
                    /\ S.ran
                    /\ F = S.ret.result.answers.parts
                    /\ \A i, j \in DOMAIN F : F[i].key = F[j].key => i = j
                    /\ AfterFragments(T) = <<"% Main program\n", S.ret.result.answers.text>>
      ]_vars

\* C25 witness: buildProgram assembled a text of two programs, one of them
\* found by a category, while a result was cached.
C25_Witness ==
    /\ bindLast.op = "BuildProgram" /\ bindLast.threw = ""
    /\ Len(FragmentsOf(bindLast.ret.text)) = 2
    /\ " (category: " \in Range(bindLast.ret.text)
    /\ g_results # <<>>


-----------------------------------------------------------------------------
(* ProgramStore: the interning of strings.                                  *)

\* C30: no two strings share a KeyHash, and no step changes or forgets the
\* KeyHash of a string.
C30_InterningInjectiveAndStable ==
    [][ /\ \A x \in DOMAIN key_to_hash :
              x \in DOMAIN key_to_hash' /\ key_to_hash'[x] = key_to_hash[x]
        /\ \A x, y \in DOMAIN key_to_hash' :
              key_to_hash'[x] = key_to_hash'[y] => x = y
      ]_vars


-----------------------------------------------------------------------------
(* ClingoSolver and SolveResultCache: results that depend on the date.      *)

\* The local calendar day of a clock value.
Day(t) == t \div DayLength

\* A cache that holds result r under fingerprint k and nothing else.
Holding(k, r) ==
    [ entries |-> [x \in {k} |-> [result |-> r, sizeBytes |-> 1]],
      lru |-> <<k>>,
      currentBytes |-> 1 ]

\* Whether grounding in the last solve called a function that reads the
\* wall-clock date.
ReadsDate == \E name \in {"today", "daysSince"} : name \in Range(solverLast.run.calls)

\* C31: a result of a solve that read the date, once cached, is not handed
\* out by a lookup on a later local calendar day than the day of the solve.
C31_NoHitAcrossDays ==
    (LastSolverSolve /\ ~solverLast.ret.isError /\ ReadsDate) =>
        \A t \in Clock :
            Day(t) > Day(solverLast.at) =>
                resultOp(Holding(<<1>>, solverLast.ret), <<1>>, t).ret = FALSE


\* C39: a lookup of an entry with a non-zero valid_until is a hit when the
\* clock is at most valid_until, at the very value of valid_until included,
\* and a miss only when the clock is past it.
C39_ExpiryIsStrict ==
    ( /\ LastLookup
      /\ cacheLast.hash \in DOMAIN cacheLast.pre.entries
      /\ cacheLast.pre.entries[cacheLast.hash].result.valid_until # 0 ) =>
        LET r == cacheLast.pre.entries[cacheLast.hash].result
        IN  /\ cacheLast.at <= r.valid_until =>
                  /\ cacheLast.ret = TRUE
                  /\ cacheLast.out = r
                  /\ cacheLast.hash \in DOMAIN entries
            /\ cacheLast.at > r.valid_until =>
                  /\ cacheLast.ret = FALSE
                  /\ cacheLast.hash \notin DOMAIN entries

\* C39 witness: a lookup at the clock value equal to the valid_until of the
\* entry returned it.
C39_Witness ==
    /\ LastLookup /\ cacheLast.ret = TRUE
    /\ cacheLast.out.valid_until # 0
    /\ cacheLast.at = cacheLast.out.valid_until


-----------------------------------------------------------------------------
(* ProgramStore: the Query prepareQuery returns.                            *)

\* The stored programs of a Query: its programs but the last.
StoredOf(q) == SubSeq(q.programs, 1, Len(q.programs) - 1)

\* The eight bytes of the hash of each program of a list, in turn.
RECURSIVE EveryHash(_)
EveryHash(progs) ==
    IF progs = <<>> THEN <<>>
    ELSE LittleEndian(Head(progs).hash, HASH_BYTES) \o EveryHash(Tail(progs))

\* C32: the bytes hashed for a Query are the query text and then the eight
\* bytes of the content hash of each resolved stored program, each once, in
\* non-decreasing order of the hashes; the main program adds none.
C32_FingerprintInput ==
    held # NoQuery =>
        /\ held.out.hash = held.query \o EveryHash(StoredOf(held.out))
        /\ \A i, j \in DOMAIN StoredOf(held.out) :
              i < j => held.out.programs[i].hash <= held.out.programs[j].hash


\* The Query as ClingoSolver::solve reads it, and the parts it names.
AsSolverQuery(q) ==
    [programs |-> [i \in DOMAIN q.programs |->
                     [key |-> q.programs[i].key,
                      program |-> [content |-> q.programs[i].content]]]]
PartsOf(q) ==
    [i \in DOMAIN q.programs |-> [key |-> q.programs[i].key, content |-> q.programs[i].content]]

\* C33: the programs of a Query are programs of the store in non-decreasing
\* order of their hashes and then, last, the one program made for the query
\* text; that program is in none of the store's maps; and solve gives the
\* engine the programs in this order.
C33_PartListEndsWithMain ==
    /\ \A o \in Range(programs) : o.id # 0
    /\ \A c \in DOMAIN programs_by_category :
          \A o \in Range(programs_by_category[c]) : o.id # 0
    /\ "__program__" \notin DOMAIN key_to_hash
    /\ held # NoQuery =>
          LET q == held.out
              n == Len(q.programs)
          IN  /\ n >= 1
              /\ q.programs[n].id = 0
              /\ q.programs[n].key = "__program__"
              /\ q.programs[n].content = held.query
              /\ \A i \in 1..(n - 1) : q.programs[i].id # 0
              /\ \A i, j \in 1..(n - 1) : i < j => q.programs[i].hash <= q.programs[j].hash
              /\ solveOp(Solver, AsSolverQuery(q), SolverRun("none", <<>>, TRUE, FALSE), now)
                     .ret.answers = <<PartsOf(q)>>

\* C33 witness: a Query of two stored programs of different hashes and the
\* main program.
C33_Witness ==
    /\ held # NoQuery
    /\ Len(held.out.programs) = 3
    /\ held.out.programs[1].hash < held.out.programs[2].hash


\* Whether the programs of a Query have pairwise distinct keys.
DistinctKeys(q) ==
    \A i, j \in DOMAIN q.programs : q.programs[i].key = q.programs[j].key => i = j

\* The Queries prepareQuery returns for the references <<key>> once
\* addProgram(key, "p", {}) has been called on the store.
QueriesAfterAdd(key) ==
    prepareQueryOp(addProgramOp(Store, key, "p", <<>>, allocated + 1),
                   <<113>>, <<key>>, held).queries

\* C34: the programs of a Query have pairwise distinct keys: no two stored
\* programs share a key and none has the key of the main program; for the
\* Query a caller got, and for the Query of a program registered next,
\* whatever its key.
C34_PartNamesDistinct ==
    /\ held # NoQuery => DistinctKeys(held.out)
    /\ \A key \in Strings \cup {"__program__"} :
          \A q \in QueriesAfterAdd(key) : DistinctKeys(q)


\* Whether a reference list names a program by its key or by one of its tags.
Matches(o, refs) == o.key \in Range(refs) \/ Range(o.tags) \cap Range(refs) # {}

\* C35: two registered programs of different keys and equal content hash
\* are both in the vector resolve returns, each once, for every reference
\* list that names both.
C35_EqualHashesBothResolved ==
    \A refs \in AllRefs :
        \A v \in programByReferences(Store, refs, held).results :
            \A o1, o2 \in Registered :
                ( /\ o1.key # o2.key
                  /\ o1.hash = o2.hash
                  /\ Matches(o1, refs) /\ Matches(o2, refs) )
                => /\ Count(v, o1) = 1
                   /\ Count(v, o2) = 1


\* The store after removeAllPrograms, and a store after one more
\* addProgram of fragment f.
Cleared == removeAllProgramsOp(Store)
WithFragment(S, f) == addProgramOp(S, f.key, f.content, f.categories, allocated + 1)

\* C36: after removeAllPrograms every resolve returns nothing, and a
\* fragment registered next resolves, for every reference list, as it does
\* registered in a new store.
C36_RemoveAllLikeNewStore ==
    /\ \A refs \in AllRefs : Resolved(Cleared, refs, held) = {}
    /\ \A f \in Fragments, query \in QueryTexts, refs \in AllRefs :
          QueryViews(WithFragment(Cleared, f), query, refs, held)
              = QueryViews(WithFragment(EmptyStore, f), query, refs, NoQuery)


-----------------------------------------------------------------------------
(* ClingoSolver: error results.                                             *)

\* C37: a result flagged as an error has no answers, also when answers were
\* collected before the failure; and a result that is no error has the
\* answers of the query of this solve and no others.
C37_ErrorResultHasNoAnswers ==
    LastSolverSolve =>
        /\ solverLast.ret.isError => solverLast.ret.answers = <<>>
        /\ ~solverLast.ret.isError =>
              solverLast.ret.answers = <<Parts(solverLast.query.programs)>>
        /\ solverLast.run.fail # "none" => solverLast.ret.isError

\* C37 witness: collecting a model failed after an answer had been
\* collected, and the result is an error without answers.
C37_Witness ==
    /\ LastSolverSolve
    /\ solverLast.run.fail = "model"
    /\ answers # <<>>
    /\ solverLast.ret.isError
    /\ solverLast.ret.answers = <<>>

\* The calls of one kind among the clingo calls of the last solve.
CallsOf(name) == SelectSeq(solverLast.engine, LAMBDA c : c.call = name)

\* C38: when adding a part fails, the parts before it and no part after it
\* were added, grounding and solving were not called, and the error result
\* has the key of the part and the messages of this solve; a failure of any
\* other call gives an error result with an empty key.
C38_FailedAddNamesPart ==
    LastSolverSolve =>
        LET progs == solverLast.query.programs
            fail == solverLast.run.fail
            r == solverLast.ret
        IN  /\ fail \in {"add", "addLast"} =>
                  LET k == IF fail = "add" THEN 1 ELSE Len(progs)
                  IN  /\ r.isError
                      /\ r.key = progs[k].key
                      /\ CallsOf("add") = [i \in 1..k |-> EngineCall("add", progs[i].key)]
                      /\ CallsOf("ground") = <<>>
                      /\ CallsOf("solve") = <<>>
                      /\ CallsOf("get") = <<>>
                      /\ r.logs = <<ErrorMessage>>
                      /\ r.logs = errorMessages
            /\ fail \in {"new", "ground", "solve", "model", "get"} =>
                  r.isError /\ r.key = ""
            /\ (r.isError /\ fail \notin {"add", "addLast"}) => r.key = ""

\* C38 witness: adding the first of two parts failed on a solver that had
\* solved before.
C38_Witness ==
    /\ LastSolverSolve
    /\ solverLast.run.fail = "add"
    /\ Len(solverLast.query.programs) = 2
    /\ solverLast.ret.key = solverLast.query.programs[1].key
    /\ Len(solverLast.engine) = 2
    /\ solverLast.flagBefore

=============================================================================
